---- MODULE Spec2Model ----
(***************************************************************************)
(* Model of the API sensitive-information scanner (src/src/function):      *)
(* Config::validate, load_paths, valid_ua and comprehensive_scan.          *)
(*                                                                         *)
(* Strings are sequences of one-character strings, so that trim,           *)
(* starts_with, trim_end_matches and the URL join are computed as the      *)
(* code computes them.  A file is a record [exists, readable, lines]; its  *)
(* byte length is zero exactly when it has no line.                        *)
(***************************************************************************)
EXTENDS Integers, Sequences, FiniteSets, TLC

\* ------------------------------------------------------------------ bounds
MaxPaths == 2
MaxUaLines == 3
MaxDictLines == 2
MaxIncludeLines == 1
MaxExcludeLines == 1

\* ------------------------------------------------------ program constants
MaxConcurrency == 100
NotFound == 404
Forbidden == 403
StatusOk == 200
ServerErrorLo == 500
ServerErrorHi == 599
SuccessLo == 200
SuccessHi == 299

VARIABLES
    config,          \* the Config of the run (read-only after construction)
    pc,              \* control location of run_scan / valid_ua / comprehensive_scan
    err,             \* the ScanError returned, "none" while running
    paths,           \* Vec<String> returned by load_paths
    ua_queue,        \* VecDeque of UA strings in valid_ua
    max_retries,     \* valid_ua: queue length at loop entry
    retry_count,     \* valid_ua: failed attempts so far
    success,         \* valid_ua: loop flag
    current_ua,      \* valid_ua: UA of the last attempt
    probe_log,       \* requests perform_request sent for valid_ua, in order
    user_agent,      \* the UA valid_ua returned to comprehensive_scan
    started,         \* number of futures pulled from the path stream
    request_log,     \* GET requests the futures sent, in order
    tstate,          \* per path: "queued" | "sent" | "body" | "done", and
                     \* "locked" | "loaded" | "stored" inside the 5xx arm
    counter_read,    \* per path: the counter value read by `*counter += 1`
    body_read,       \* per path: "unread" | "read" | "failed", how
                     \* response.text().await ended
    status_code,     \* per path: status of the response, NoStatus before it
    detected,        \* per path: what detector.detect returned, NotRun before
    ret,             \* per path: value the future returned (None or Some)
    results,         \* Vec collected by buffer_unordered, in completion order
    error_count,     \* Arc<Mutex<u32>> 5xx counter
    forbidden_urls,  \* Arc<Mutex<Vec<String>>>
    progress,        \* position of the progress bar
    report           \* the ComprehensiveScanReport returned, NoReport before

vars == <<config, pc, err, paths, ua_queue, max_retries, retry_count, success,
          current_ua, probe_log, user_agent, started, request_log, tstate,
          counter_read, body_read, status_code, detected, ret, results,
          error_count, forbidden_urls, progress, report>>

uaVars == <<ua_queue, max_retries, retry_count, success, current_ua,
            probe_log, user_agent>>

scanVars == <<started, request_log, tstate, counter_read, body_read,
              status_code, detected, ret, results, error_count,
              forbidden_urls, progress, report>>

\* ----------------------------------------------------------------- values
\* An Option<T> is a sequence of length zero (None) or one (Some).
None == <<>>
Opt(x) == <<x>>
IsSome(v) == v # None
NoStatus == 0
NotRun == None
NoReport == None
NoFile == [exists |-> FALSE, readable |-> FALSE, lines |-> <<>>]

File(ls) == [exists |-> TRUE, readable |-> TRUE, lines |-> ls]

\* ---------------------------------------------------------------- strings
IsWhitespace(c) == c \in {" ", "\t"}

RECURSIVE TrimStart(_)
TrimStart(s) ==
    IF s # <<>> /\ IsWhitespace(Head(s)) THEN TrimStart(Tail(s)) ELSE s

RECURSIVE TrimEnd(_)
TrimEnd(s) ==
    IF s # <<>> /\ IsWhitespace(s[Len(s)])
    THEN TrimEnd(SubSeq(s, 1, Len(s) - 1)) ELSE s

Trim(s) == TrimEnd(TrimStart(s))

StartsWith(s, p) == Len(s) >= Len(p) /\ SubSeq(s, 1, Len(p)) = p

RECURSIVE TrimEndMatches(_, _)
TrimEndMatches(s, c) ==
    IF s # <<>> /\ s[Len(s)] = c
    THEN TrimEndMatches(SubSeq(s, 1, Len(s) - 1), c) ELSE s

Contains(seq, x) == \E k \in 1..Len(seq) : seq[k] = x

Count(seq, x) == Cardinality({k \in 1..Len(seq) : seq[k] = x})

\* lines().map(trim).filter(non-empty).collect()
RECURSIVE TrimAll(_)
TrimAll(ls) ==
    IF ls = <<>> THEN <<>> ELSE <<Trim(Head(ls))>> \o TrimAll(Tail(ls))

IsNonEmpty(s) == s # <<>>

Entries(ls) == SelectSeq(TrimAll(ls), IsNonEmpty)

HttpScheme == <<"h", "t", "t", "p", ":", "/", "/">>
HttpsScheme == <<"h", "t", "t", "p", "s", ":", "/", "/">>

\* ------------------------------------------------------- Config::validate
validate(cfg) ==
    IF ~StartsWith(cfg.target, HttpScheme) /\ ~StartsWith(cfg.target, HttpsScheme)
    THEN "InvalidConfig"
    ELSE IF ~cfg.dictionary.exists
    THEN "InvalidConfig"
    ELSE IF cfg.concurrency = 0 \/ cfg.concurrency > MaxConcurrency
    THEN "InvalidConfig"
    ELSE IF IsSome(cfg.auth_token) /\ Trim(cfg.auth_token[1]) = <<>>
    THEN "InvalidConfig"
    ELSE IF IsSome(cfg.auth_token) /\ Contains(cfg.auth_token[1], ".")
            /\ Count(cfg.auth_token[1], ".") + 1 # 3
    THEN "InvalidConfig"
    ELSE IF IsSome(cfg.proxy) /\ ~StartsWith(cfg.proxy[1], HttpScheme)
            /\ ~StartsWith(cfg.proxy[1], HttpsScheme)
    THEN "InvalidConfig"
    ELSE IF ~cfg.user_agent_file.exists
    THEN "InvalidConfig"
    ELSE IF Len(cfg.user_agent_file.lines) = 0
    THEN "InvalidConfig"
    ELSE "Ok"

\* ------------------------------------------------- transport and detector
\* Status codes the fake target answers with: one per routing branch, the
\* edges of the 5xx range and of the success range, and their neighbours.
StatusCodes == {200, 204, 302, 403, 404, 500, 599}

\* Response bodies, as read by response.text().
Bodies == {<<>>, <<"x">>}

\* What detector.detect(&url, &body) may return: no finding, or the findings
\* of a body of that length (one for an empty body, two for another one).
\* The detector itself lives in vulnerability.rs; any detector is allowed
\* here the values of which are among these.
Finding(u, t) == [url |-> u, info_type |-> t]

DetectorOutputs(u, body) ==
    {<<>>,
     IF body = <<>> THEN <<Finding(u, "password")>>
     ELSE <<Finding(u, "password"), Finding(u, "email")>>}

\* Mutant: redirections count as success too.
is_successOrRedirect(code) == code >= SuccessLo /\ code <= SuccessHi + 100

is_success(code) == code \in SuccessLo..SuccessHi

\* ---------------------------------------------------------------- headers
\* A header value is a string like a UA: a sequence; the fixed values are
\* written as one element.
AcceptValue ==
    <<"text/html,application/xhtml+xml,application/xml;q=0.9,image/avif,image/webp,*/*;q=0.8">>
AcceptLanguageValue == <<"zh-CN,zh;q=0.9,en;q=0.8">>
AcceptEncodingValue == <<"gzip, deflate, br">>
KeepAlive == <<"keep-alive">>
Bearer(token) == <<"Bearer ">> \o token

\* valid_ua 71-77 and perform_request 139-148: the five baseline headers,
\* each split at its first colon, and Authorization when a token is set.
ProbeHeaders(ua, cfg) ==
    LET base == ("User-Agent" :> Trim(ua)) @@ ("Accept" :> AcceptValue)
                  @@ ("Accept-Language" :> AcceptLanguageValue)
                  @@ ("Accept-Encoding" :> AcceptEncodingValue)
                  @@ ("Connection" :> KeepAlive)
    IN IF IsSome(cfg.auth_token)
       THEN base @@ ("Authorization" :> Bearer(cfg.auth_token[1]))
       ELSE base

\* Mutant: the UA sent is the one now at the head of the queue.
ScanHeadersNextUa(ua, cfg) ==
    ("User-Agent" :> Head(ua_queue))
      @@ ("Authorization" :>
            Bearer(IF IsSome(cfg.auth_token) THEN cfg.auth_token[1] ELSE <<>>))
      @@ ("Accept-Language" :> AcceptLanguageValue)
      @@ ("Connection" :> KeepAlive)
      @@ ("Accept" :> AcceptValue)

\* comprehensive_scan 280-285: the headers of a per-path GET.
ScanHeaders(ua, cfg) ==
    ("User-Agent" :> ua)
      @@ ("Authorization" :>
            Bearer(IF IsSome(cfg.auth_token) THEN cfg.auth_token[1] ELSE <<>>))
      @@ ("Accept-Language" :> AcceptLanguageValue)
      @@ ("Connection" :> KeepAlive)
      @@ ("Accept" :> AcceptValue)

\* ------------------------------------------------------ comprehensive_scan
Tasks == 1..Len(paths)

\* scanner.rs 270-274
Url(target, path) ==
    IF StartsWith(path, <<"/">>)
    THEN TrimEndMatches(target, "/") \o path
    ELSE TrimEndMatches(target, "/") \o <<"/">> \o path

InFlight == {i \in Tasks : tstate[i] \notin {"queued", "done"}}

\* Mutant: the queue takes one future more than the limit.
HasCapacityOffByOne == Cardinality(InFlight) <= config.concurrency

\* Mutant: the queue keeps one slot free.
HasCapacityOneLess == Cardinality(InFlight) + 1 < config.concurrency

\* buffer_unordered(concurrency): a future is pulled from the stream only
\* while fewer than `concurrency` are in progress.
HasCapacity == Cardinality(InFlight) < config.concurrency

\* buffer_unordered polls the futures in progress only after it has pulled
\* from the stream all it can.
Filled == started = Len(paths) \/ ~HasCapacity

\* Mutant: the 5xx arm written as the half-open range 500..599.
ClassifyHalfOpen5xx(code) ==
    IF code = NotFound THEN "skip"
    ELSE IF code = Forbidden THEN "forbidden"
    ELSE IF code \in ServerErrorLo..(ServerErrorHi - 1) THEN "server_error"
    ELSE IF code = StatusOk THEN "ok"
    ELSE "other"

\* Mutant: the 404 arm is missing, 404 falls through to the `_` arm.
ClassifyNo404(code) ==
    IF code = Forbidden THEN "forbidden"
    ELSE IF code \in ServerErrorLo..ServerErrorHi THEN "server_error"
    ELSE IF code = StatusOk THEN "ok"
    ELSE "other"

\* match status_code { 404, 403, 500..=599, 200, _ }
Classify(code) ==
    IF code = NotFound THEN "skip"
    ELSE IF code = Forbidden THEN "forbidden"
    ELSE IF code \in ServerErrorLo..ServerErrorHi THEN "server_error"
    ELSE IF code = StatusOk THEN "ok"
    ELSE "other"

ScanResult(i, code, body, isFound) ==
    [path |-> paths[i], url |-> Url(config.target, paths[i]),
     status_code |-> code, content_length |-> Len(body), found |-> isFound]

Some(r, f) == Opt([result |-> r, findings |-> f])

\* Mutant: the 200 arm keeps the result without looking at the findings.
Ok200ResultKeepAll(i, code, body, f) ==
    Some(ScanResult(i, code, body, TRUE), f)

\* The 200 arm: keep the result only when the detector found something.
Ok200Result(i, code, body, f) ==
    IF f # <<>> THEN Some(ScanResult(i, code, body, TRUE), f) ELSE None

\* Mutant: the `_` arm copies found: true from the 200 arm.
OtherResultFoundTrue(i, code, body, f) ==
    Some(ScanResult(i, code, body, TRUE), f)

\* Mutant: the `_` arm returns the result with an empty list of findings.
OtherResultNoFindings(i, code, body, f) ==
    Some(ScanResult(i, code, body, is_success(code)), <<>>)

\* The `_` arm: keep the result whatever the detector found.
OtherResult(i, code, body, f) ==
    Some(ScanResult(i, code, body, is_success(code)), f)

\* Mutant: the values are yielded in the order of the path list, as an
\* ordered buffer would.
FinishInPathOrder(i, value) ==
    LET finished == {j \in Tasks : j = i \/ tstate[j] = "done"}
        val(j) == IF j = i THEN value ELSE ret[j]
        nth(n) == CHOOSE j \in finished :
                    Cardinality({x \in finished : x < j}) = n - 1
    IN /\ tstate' = [tstate EXCEPT ![i] = "done"]
       /\ ret' = [ret EXCEPT ![i] = value]
       /\ results' = [n \in 1..Cardinality(finished) |-> val(nth(n))]
       /\ progress' = progress + 1

\* A future returns: pb.inc(1), and buffer_unordered yields its value.
Finish(i, value) ==
    /\ tstate' = [tstate EXCEPT ![i] = "done"]
    /\ ret' = [ret EXCEPT ![i] = value]
    /\ results' = Append(results, value)
    /\ progress' = progress + 1

\* client.get(&url) with its headers, for the path of index i.
Request(i) ==
    [idx |-> i, url |-> Url(config.target, paths[i]),
     headers |-> ScanHeaders(user_agent, config)]

\* The stream hands the next path to buffer_unordered, which sends its GET.
StartRequest ==
    /\ pc = "scan"
    /\ started < Len(paths)
    /\ HasCapacity
    /\ started' = started + 1
    /\ tstate' = [tstate EXCEPT ![started + 1] = "sent"]
    /\ request_log' = Append(request_log, Request(started + 1))
    /\ UNCHANGED <<config, pc, err, paths, uaVars, counter_read, body_read,
                   status_code,
                   detected, ret, results, error_count, forbidden_urls,
                   progress, report>>

\* Mutant: the 403 arm counts as an error too.
CountErrorAnd403(code) ==
    IF Classify(code) \in {"server_error", "forbidden"}
    THEN error_count + 1 ELSE error_count

\* 5xx arm: lock the counter and add one.
CountError(code) ==
    IF Classify(code) = "server_error" THEN error_count + 1 ELSE error_count

\* 403 arm: the push onto forbidden_urls is commented out in the source.
RecordForbidden(i, code) == forbidden_urls

\* send().await returns Ok(response): the status arms 404, 403, 5xx finish
\* the future at once, the arms 200 and `_` go on to read the body.
SendOk(i, code) ==
    /\ pc = "scan"
    /\ tstate[i] = "sent"
    /\ Filled
    /\ status_code' = [status_code EXCEPT ![i] = code]
    /\ error_count' = CountError(code)
    /\ forbidden_urls' = RecordForbidden(i, code)
    /\ IF Classify(code) \in {"skip", "forbidden", "server_error"}
       THEN Finish(i, None)
       ELSE /\ tstate' = [tstate EXCEPT ![i] = "body"]
            /\ UNCHANGED <<ret, results, progress>>
    /\ UNCHANGED <<config, pc, err, paths, uaVars, started, request_log,
                   counter_read, body_read, detected, report>>

\* Mutant: the transport error is propagated and ends the scan.
TransportFailurePropagated ==
    [pc |-> "failed", err |-> "RequestFailed", value |-> None]

\* The Err(e) arm: the error is printed and the future returns None; nothing
\* is propagated to comprehensive_scan.
TransportFailure == [pc |-> "scan", err |-> "none", value |-> None]

\* send().await returns Err(e).
SendErr(i) ==
    /\ pc = "scan"
    /\ tstate[i] = "sent"
    /\ Filled
    /\ Finish(i, TransportFailure.value)
    /\ pc' = TransportFailure.pc
    /\ err' = TransportFailure.err
    /\ UNCHANGED <<config, paths, uaVars, started, request_log, counter_read,
                   body_read,
                   status_code, detected, error_count, forbidden_urls, report>>

\* response.text().await.unwrap_or_default(), then detector.detect.
BodyResult(i, code, body, f) ==
    IF Classify(code) = "ok" THEN Ok200Result(i, code, body, f)
    ELSE OtherResult(i, code, body, f)

\* Mutant: a failed read hands on what was received of the body.
unwrap_or_received(textOk, text) == text

\* .unwrap_or_default(): the text, or the empty string if reading it failed.
unwrap_or_default(textOk, text) == IF textOk THEN text ELSE <<>>

ReadBody(i, textOk, text) ==
    /\ pc = "scan"
    /\ tstate[i] = "body"
    /\ Filled
    /\ body_read' = [body_read EXCEPT
                       ![i] = IF textOk THEN "read" ELSE "failed"]
    /\ LET body == unwrap_or_default(textOk, text) IN
         \E f \in DetectorOutputs(Url(config.target, paths[i]), body) :
           /\ detected' = [detected EXCEPT ![i] = Opt(f)]
           /\ Finish(i, BodyResult(i, status_code[i], body, f))
    /\ UNCHANGED <<config, pc, err, paths, uaVars, started, request_log,
                   counter_read, status_code, error_count, forbidden_urls,
                   report>>

\* for result in results { if let Some(..) { push; extend } }

RECURSIVE BasicResults(_)
BasicResults(rs) ==
    IF rs = <<>> THEN <<>>
    ELSE (IF IsSome(Head(rs)) THEN <<Head(rs)[1].result>> ELSE <<>>)
         \o BasicResults(Tail(rs))

RECURSIVE SensitiveFindings(_)
SensitiveFindings(rs) ==
    IF rs = <<>> THEN <<>>
    ELSE (IF IsSome(Head(rs)) THEN Head(rs)[1].findings ELSE <<>>)
         \o SensitiveFindings(Tail(rs))

MakeReport ==
    [basic_results |-> BasicResults(results),
     sensitive_findings |-> SensitiveFindings(results),
     scan_config |-> [target |-> config.target, paths_scanned |-> Len(paths)],
     error_count |-> error_count,
     forbidden_urls |-> forbidden_urls]

\* collect() completes when the stream is exhausted and every future is done;
\* the results are aggregated and the report is returned.
Collect ==
    /\ pc = "scan"
    /\ started = Len(paths)
    /\ InFlight = {}
    /\ report' = Opt(MakeReport)
    /\ pc' = "done"
    /\ UNCHANGED <<config, err, paths, uaVars, started, request_log, tstate,
                   counter_read, body_read, status_code, detected, ret, results,
                   error_count, forbidden_urls, progress>>

\* ----------------------------------------- the 5xx arm, statement by statement
\* Futures that hold the MutexGuard of error_counter.
Holders == {i \in Tasks : tstate[i] \in {"locked", "loaded", "stored"}}

\* Mutant: the counter is shared without a lock.
LockFreeAlways == TRUE

\* error_counter.lock() returns only while no other guard is alive.
LockFree == Holders = {}

\* The response is a 5xx: error_counter.lock().unwrap()
Lock(i, code) ==
    /\ pc = "scan"
    /\ tstate[i] = "sent"
    /\ Filled
    /\ Classify(code) = "server_error"
    /\ LockFree
    /\ status_code' = [status_code EXCEPT ![i] = code]
    /\ tstate' = [tstate EXCEPT ![i] = "locked"]
    /\ UNCHANGED <<config, pc, err, paths, uaVars, started, request_log,
                   counter_read, body_read, detected, ret, results, error_count,
                   forbidden_urls, progress, report>>

\* *counter += 1 reads the counter ...
Load(i) ==
    /\ pc = "scan"
    /\ tstate[i] = "locked"
    /\ counter_read' = [counter_read EXCEPT ![i] = error_count]
    /\ tstate' = [tstate EXCEPT ![i] = "loaded"]
    /\ UNCHANGED <<config, pc, err, paths, uaVars, started, request_log,
                   body_read, status_code, detected, ret, results,
                   error_count, forbidden_urls, progress, report>>

\* ... and writes it back, one higher.
Store(i) ==
    /\ pc = "scan"
    /\ tstate[i] = "loaded"
    /\ error_count' = counter_read[i] + 1
    /\ tstate' = [tstate EXCEPT ![i] = "stored"]
    /\ UNCHANGED <<config, pc, err, paths, uaVars, started, request_log,
                   counter_read, body_read, status_code, detected, ret, results,
                   forbidden_urls, progress, report>>

\* The arm ends: the guard is dropped and the future returns None.
Unlock(i) ==
    /\ pc = "scan"
    /\ tstate[i] = "stored"
    /\ Finish(i, None)
    /\ UNCHANGED <<config, pc, err, paths, uaVars, started, request_log,
                   counter_read, body_read, status_code, detected, error_count,
                   forbidden_urls, report>>

\* ---------------------------------------------------------------- valid_ua
\* The scan's containers before comprehensive_scan creates them.
NoScan ==
    /\ started = 0
    /\ request_log = <<>>
    /\ tstate = <<>>
    /\ counter_read = <<>>
    /\ body_read = <<>>
    /\ status_code = <<>>
    /\ detected = <<>>
    /\ ret = <<>>
    /\ results = <<>>
    /\ error_count = 0
    /\ forbidden_urls = <<>>
    /\ progress = 0
    /\ report = NoReport

\* scanner.rs 241-255: detector, result containers, one future per path.
CreateScan(ps) ==
    /\ started' = 0
    /\ request_log' = <<>>
    /\ tstate' = [i \in 1..Len(ps) |-> "queued"]
    /\ counter_read' = [i \in 1..Len(ps) |-> 0]
    /\ body_read' = [i \in 1..Len(ps) |-> "unread"]
    /\ status_code' = [i \in 1..Len(ps) |-> NoStatus]
    /\ detected' = [i \in 1..Len(ps) |-> NotRun]
    /\ ret' = [i \in 1..Len(ps) |-> None]
    /\ results' = <<>>
    /\ error_count' = 0
    /\ forbidden_urls' = <<>>
    /\ progress' = 0
    /\ report' = NoReport

\* valid_ua starts with config.validate()?
UaValidate ==
    /\ pc = "ua_validate"
    /\ IF validate(config) = "Ok"
       THEN pc' = "ua_read" /\ err' = err
       ELSE pc' = "failed" /\ err' = validate(config)
    /\ UNCHANGED <<config, paths, uaVars, scanVars>>

\* fs::read_to_string of the UA file, the queue of its trimmed non-empty
\* lines, and the loop variables.
UaRead ==
    /\ pc = "ua_read"
    /\ IF ~config.user_agent_file.readable
       THEN /\ pc' = "failed"
            /\ err' = "InvalidConfig"
            /\ UNCHANGED <<ua_queue, max_retries, retry_count, success,
                           current_ua>>
       ELSE /\ ua_queue' = Entries(config.user_agent_file.lines)
            /\ success' = FALSE
            /\ retry_count' = 0
            /\ current_ua' = <<>>
            /\ max_retries' = Len(Entries(config.user_agent_file.lines))
            /\ pc' = "ua_loop"
            /\ err' = err
    /\ UNCHANGED <<config, paths, probe_log, user_agent, scanVars>>

\* while !success && retry_count < max_retries
LoopCond == ~success /\ retry_count < max_retries

\* Mutant: only a 200 is taken as a success.
ProbeSucceededOnly200(resp) == IsSome(resp) /\ resp[1] = StatusOk

\* Ok(response) if response.status().is_success()
ProbeSucceeded(resp) == IsSome(resp) /\ is_success(resp[1])

\* Mutant: the UA is put back at the front of the queue.
RequeueFront(q) == <<Head(q)>> \o Tail(q)

\* queue.pop_front().unwrap(); queue.push_back(ua.clone())
Requeue(q) == Append(Tail(q), Head(q))

\* The request perform_request sends for a probe, and its outcome.
ProbeRequest(ua, resp) ==
    [ua |-> ua, headers |-> ProbeHeaders(ua, config), resp |-> resp]

\* One iteration of the loop: the head of the queue is moved to its tail and
\* sent in a probe; resp is the status of the response, None for an Err.
Probe(resp) ==
    /\ pc = "ua_loop"
    /\ LoopCond
    /\ LET ua == Head(ua_queue) IN
         /\ ua_queue' = Requeue(ua_queue)
         /\ current_ua' = ua
         /\ probe_log' = Append(probe_log, ProbeRequest(ua, resp))
    /\ IF ProbeSucceeded(resp)
       THEN success' = TRUE /\ retry_count' = retry_count
       ELSE success' = success /\ retry_count' = retry_count + 1
    /\ UNCHANGED <<config, pc, err, paths, max_retries, user_agent, scanVars>>

\* After the loop: Err(RequestFailed) if no probe succeeded, else
\* Ok(current_ua), with which comprehensive_scan sets up the scan.
UaReturn ==
    /\ pc = "ua_loop"
    /\ ~LoopCond
    /\ IF ~success
       THEN /\ pc' = "failed"
            /\ err' = "RequestFailed"
            /\ UNCHANGED <<user_agent, scanVars>>
       ELSE /\ pc' = "scan"
            /\ err' = err
            /\ user_agent' = current_ua
            /\ CreateScan(paths)
    /\ UNCHANGED <<config, paths, ua_queue, max_retries, retry_count, success,
                   current_ua, probe_log>>

\* ---------------------------------------------------------------- run_scan
\* run_scan starts with config.validate()?
Validate ==
    /\ pc = "validate"
    /\ IF validate(config) = "Ok"
       THEN pc' = "build_client" /\ err' = err
       ELSE pc' = "failed" /\ err' = validate(config)
    /\ UNCHANGED <<config, paths, uaVars, scanVars>>

\* reqwest::Proxy::all parses the proxy URL: it needs a host after the scheme.
ProxyParses(p) ==
    \/ StartsWith(p, HttpsScheme) /\ Len(p) > Len(HttpsScheme)
    \/ ~StartsWith(p, HttpsScheme) /\ StartsWith(p, HttpScheme)
         /\ Len(p) > Len(HttpScheme)

\* build_client: the proxy is parsed, then the client is built (builds is
\* whether Client::builder().build() succeeds).
build_client(cfg, builds) ==
    IF IsSome(cfg.proxy) /\ ~ProxyParses(cfg.proxy[1]) THEN "InvalidConfig"
    ELSE IF ~builds THEN "ClientError"
    ELSE "Ok"

\* let client = build_client(&config)?
BuildClient(builds) ==
    /\ pc = "build_client"
    /\ IF build_client(config, builds) = "Ok"
       THEN pc' = "load_paths" /\ err' = err
       ELSE pc' = "failed" /\ err' = build_client(config, builds)
    /\ UNCHANGED <<config, paths, uaVars, scanVars>>

\* -------------------------------------------------------------- load_paths
\* Mutant: the exclusion also drops the repeated entries.
RetainDedup(ps, ex) ==
    LET keep(k) == /\ ~Contains(ex, ps[k])
                   /\ \A j \in 1..(k - 1) : ps[j] # ps[k]
        RECURSIVE from(_)
        from(k) == IF k > Len(ps) THEN <<>>
                   ELSE (IF keep(k) THEN <<ps[k]>> ELSE <<>>) \o from(k + 1)
    IN from(1)

\* paths.retain(|path| !exclude_paths.contains(path))
Retain(ps, ex) ==
    LET keep(p) == ~Contains(ex, p) IN SelectSeq(ps, keep)

\* An optional file that is configured and exists.
Given(optFile) == IsSome(optFile) /\ optFile[1].exists

\* Mutant: the check for an empty path list is missing.
load_pathsNoEmptyCheck(cfg) ==
    IF ~cfg.dictionary.exists \/ ~cfg.dictionary.readable
    THEN [err |-> "IOError", paths |-> <<>>]
    ELSE IF Given(cfg.include_paths) /\ ~cfg.include_paths[1].readable
    THEN [err |-> "IOError", paths |-> <<>>]
    ELSE IF Given(cfg.exclude_paths) /\ ~cfg.exclude_paths[1].readable
    THEN [err |-> "IOError", paths |-> <<>>]
    ELSE LET dict == Entries(cfg.dictionary.lines)
             extended == IF Given(cfg.include_paths)
                         THEN dict \o Entries(cfg.include_paths[1].lines)
                         ELSE dict
             retained == IF Given(cfg.exclude_paths)
                         THEN Retain(extended,
                                     Entries(cfg.exclude_paths[1].lines))
                         ELSE extended
         IN [err |-> "none", paths |-> retained]

load_paths(cfg) ==
    IF ~cfg.dictionary.exists \/ ~cfg.dictionary.readable
    THEN [err |-> "IOError", paths |-> <<>>]
    ELSE IF Given(cfg.include_paths) /\ ~cfg.include_paths[1].readable
    THEN [err |-> "IOError", paths |-> <<>>]
    ELSE IF Given(cfg.exclude_paths) /\ ~cfg.exclude_paths[1].readable
    THEN [err |-> "IOError", paths |-> <<>>]
    ELSE LET dict == Entries(cfg.dictionary.lines)
             extended == IF Given(cfg.include_paths)
                         THEN dict \o Entries(cfg.include_paths[1].lines)
                         ELSE dict
             retained == IF Given(cfg.exclude_paths)
                         THEN Retain(extended,
                                     Entries(cfg.exclude_paths[1].lines))
                         ELSE extended
         IN IF retained = <<>>
            THEN [err |-> "InvalidConfig", paths |-> <<>>]
            ELSE [err |-> "none", paths |-> retained]

\* run_scan: let paths = load_paths(&config)?; then comprehensive_scan, which
\* starts with valid_ua.
LoadPaths ==
    /\ pc = "load_paths"
    /\ IF load_paths(config).err = "none"
       THEN /\ paths' = load_paths(config).paths
            /\ pc' = "ua_validate"
            /\ err' = err
       ELSE /\ paths' = paths
            /\ pc' = "failed"
            /\ err' = load_paths(config).err
    /\ UNCHANGED <<config, uaVars, scanVars>>

\* --------------------------------------------- specification of the scan
ScanTargets == {HttpScheme \o <<"t", "/">>}

ScanPathChoices == {<<"a">>, <<"/", "b">>}

RECURSIVE SeqsUpTo(_, _)
SeqsUpTo(S, n) ==
    IF n = 0 THEN {<<>>}
    ELSE LET shorter == SeqsUpTo(S, n - 1) IN
         shorter \cup {Append(q, x) : q \in shorter, x \in S}

ConcurrencyChoices == {0, 1, 2, MaxConcurrency + 1}

ScanConfig(t, c, ps) ==
    [target |-> t, dictionary |-> File(ps), concurrency |-> c,
     auth_token |-> None, proxy |-> None,
     user_agent_file |-> File(<<<<"u">>>>),
     include_paths |-> None, exclude_paths |-> None]

ScanStart(ps) ==
    /\ started = 0
    /\ request_log = <<>>
    /\ tstate = [i \in 1..Len(ps) |-> "queued"]
    /\ counter_read = [i \in 1..Len(ps) |-> 0]
    /\ body_read = [i \in 1..Len(ps) |-> "unread"]
    /\ status_code = [i \in 1..Len(ps) |-> NoStatus]
    /\ detected = [i \in 1..Len(ps) |-> NotRun]
    /\ ret = [i \in 1..Len(ps) |-> None]
    /\ results = <<>>
    /\ error_count = 0
    /\ forbidden_urls = <<>>
    /\ progress = 0
    /\ report = NoReport

\* comprehensive_scan after valid_ua has returned: a validated configuration,
\* a non-empty path list, a validated UA.
Init ==
    /\ \E t \in ScanTargets, c \in ConcurrencyChoices :
         \E ps \in SeqsUpTo(ScanPathChoices, MaxPaths) :
           /\ config = ScanConfig(t, c, ps)
           /\ validate(config) = "Ok"
           /\ ps # <<>>
           /\ paths = ps
           /\ ScanStart(ps)
    /\ pc = "scan"
    /\ err = "none"
    /\ ua_queue = <<<<"u">>>>
    /\ max_retries = 1
    /\ retry_count = 0
    /\ success = TRUE
    /\ current_ua = <<"u">>
    /\ probe_log = <<ProbeRequest(<<"u">>, Opt(StatusOk))>>
    /\ user_agent = <<"u">>

\* How response.text().await may end here: the body is read, or the read
\* fails and the body is taken as empty.  (A body that is read and is empty
\* differs from the second case in body_read only; SpecBody has it.)
BodyReads ==
    {[ok |-> TRUE, text |-> <<"x">>], [ok |-> FALSE, text |-> <<>>]}

Next ==
    \/ StartRequest
    \/ \E i \in Tasks, code \in StatusCodes : SendOk(i, code)
    \/ \E i \in Tasks : SendErr(i)
    \/ \E i \in Tasks, r \in BodyReads : ReadBody(i, r.ok, r.text)
    \/ Collect

Spec == Init /\ [][Next]_vars

\* ----------------------------------------- specification of valid_ua alone
UaLineChoices == {<<>>, <<" ">>, <<"u">>, <<" ", "v">>}

UaFiles ==
    {File(ls) : ls \in SeqsUpTo(UaLineChoices, MaxUaLines)}
      \cup {NoFile, [exists |-> TRUE, readable |-> FALSE, lines |-> <<<<"u">>>>]}

ProbeResponses == {None} \cup {Opt(c) : c \in {199, 200, 299, 300}}

UaIdle ==
    /\ ua_queue = <<>>
    /\ max_retries = 0
    /\ retry_count = 0
    /\ success = FALSE
    /\ current_ua = <<>>
    /\ probe_log = <<>>
    /\ user_agent = <<>>

\* valid_ua is entered by comprehensive_scan with the loaded paths.
InitUA ==
    /\ \E f \in UaFiles :
         config = [ScanConfig(HttpScheme \o <<"t">>, 1, <<<<"a">>>>)
                     EXCEPT !.user_agent_file = f]
    /\ pc = "ua_validate"
    /\ err = "none"
    /\ paths = <<<<"a">>>>
    /\ UaIdle
    /\ NoScan

NextUA ==
    \/ UaValidate
    \/ UaRead
    \/ \E resp \in ProbeResponses : Probe(resp)
    \/ UaReturn

SpecUA == InitUA /\ [][NextUA]_vars

\* --------------------------------------- specification of load_paths alone
PathLineChoices == {<<>>, <<"a">>, <<" ", "a", " ">>, <<"/", "b">>}

Unreadable == [exists |-> TRUE, readable |-> FALSE, lines |-> <<>>]

DictFiles ==
    {File(ls) : ls \in SeqsUpTo(PathLineChoices, MaxDictLines)}
      \cup {Unreadable}

OptFiles(n) ==
    {None, Opt(NoFile), Opt(Unreadable)}
      \cup {Opt(File(ls)) : ls \in SeqsUpTo(PathLineChoices, n)}

\* load_paths is called by run_scan after validate and build_client.
InitPaths ==
    /\ \E d \in DictFiles, inc \in OptFiles(MaxIncludeLines),
          exc \in OptFiles(MaxExcludeLines) :
         /\ config = [ScanConfig(HttpScheme \o <<"t">>, 1, <<>>)
                        EXCEPT !.dictionary = d, !.include_paths = inc,
                               !.exclude_paths = exc]
         /\ validate(config) = "Ok"
    /\ pc = "load_paths"
    /\ err = "none"
    /\ paths = <<>>
    /\ UaIdle
    /\ NoScan

NextPaths == LoadPaths

SpecPaths == InitPaths /\ [][NextPaths]_vars

\* --------------------- specification of the scan with the 5xx arm in steps
\* One status for each arm of the match but 403.
FewStatusCodes == {200, 302, 404, 500}

NextLock ==
    \/ StartRequest
    \/ \E i \in Tasks, code \in FewStatusCodes :
         Classify(code) # "server_error" /\ SendOk(i, code)
    \/ \E i \in Tasks, code \in FewStatusCodes : Lock(i, code)
    \/ \E i \in Tasks : Load(i)
    \/ \E i \in Tasks : Store(i)
    \/ \E i \in Tasks : Unlock(i)
    \/ \E i \in Tasks : SendErr(i)
    \/ \E i \in Tasks, textOk \in BOOLEAN, text \in Bodies :
         ReadBody(i, textOk, text)
    \/ Collect

SpecLock == Init /\ [][NextLock]_vars

\* ------------------------------ specification of the scan with fairness
\* Every request sent returns a response or an error (the client has a
\* timeout), and the executor keeps polling the stream: a step that can be
\* taken is eventually taken.
NextLive ==
    \/ StartRequest
    \/ \E i \in Tasks, code \in FewStatusCodes : SendOk(i, code)
    \/ \E i \in Tasks : SendErr(i)
    \/ \E i \in Tasks, textOk \in BOOLEAN, text \in Bodies :
         ReadBody(i, textOk, text)
    \/ Collect

SpecLive == Init /\ [][NextLive]_vars /\ WF_vars(NextLive)

\* The scan with every way of reading a body: read or failed, empty or not.
SpecBody == Init /\ [][NextLive]_vars

\* ------------------------------- specification of the scan of one path
\* Targets with no, one and two trailing slashes; paths with no, one and two
\* leading slashes.
UrlTargets == {HttpScheme \o <<"t">> \o s : s \in {<<>>, <<"/">>, <<"/", "/">>}}

UrlPaths == {<<"a">>, <<"/">>, <<"/", "b">>, <<"/", "/", "b">>, <<"a", "/">>}

InitUrl ==
    /\ \E t \in UrlTargets, p \in UrlPaths :
         /\ config = ScanConfig(t, 1, <<p>>)
         /\ paths = <<p>>
         /\ ScanStart(<<p>>)
    /\ pc = "scan"
    /\ err = "none"
    /\ ua_queue = <<<<"u">>>>
    /\ max_retries = 1
    /\ retry_count = 0
    /\ success = TRUE
    /\ current_ua = <<"u">>
    /\ probe_log = <<ProbeRequest(<<"u">>, Opt(StatusOk))>>
    /\ user_agent = <<"u">>

SpecUrl == InitUrl /\ [][Next]_vars

\* ------------------------------------------ specification of run_scan
\* A valid configuration, and the configurations that differ from it in one
\* setting.
RunBase ==
    [target |-> HttpScheme \o <<"t", "/">>,
     dictionary |-> File(<<<<"a">>, <<"/", "b">>>>),
     concurrency |-> 2, auth_token |-> None, proxy |-> None,
     user_agent_file |-> File(<<<<"u">>, <<" ">>, <<"v">>>>),
     include_paths |-> None, exclude_paths |-> None]

RunConfigs ==
    {RunBase}
      \cup {[RunBase EXCEPT !.target = t] :
               t \in {<<"t">>, HttpsScheme \o <<"t">>}}
      \cup {[RunBase EXCEPT !.dictionary = d] :
               d \in {NoFile, Unreadable, File(<<>>), File(<<<<"a">>>>)}}
      \cup {[RunBase EXCEPT !.concurrency = c] : c \in ConcurrencyChoices}
      \cup {[RunBase EXCEPT !.auth_token = Opt(k)] :
               k \in {<<" ">>, <<"k">>, <<"a", ".", "b">>,
                      <<"a", ".", "b", ".", "c">>}}
      \cup {[RunBase EXCEPT !.proxy = Opt(x)] :
               x \in {<<"p">>, HttpScheme, HttpScheme \o <<"p">>}}
      \cup {[RunBase EXCEPT !.user_agent_file = f] :
               f \in {NoFile, File(<<>>), File(<<<<" ">>>>),
                      File(<<<<"u">>>>),
                      [exists |-> TRUE, readable |-> FALSE,
                       lines |-> <<<<"u">>>>]}}
      \cup {[RunBase EXCEPT !.include_paths = f] :
               f \in {Opt(NoFile), Opt(Unreadable), Opt(File(<<<<"a">>>>))}}
      \cup {[RunBase EXCEPT !.exclude_paths = f] :
               f \in {Opt(File(<<<<"a">>>>)),
                      Opt(File(<<<<"a">>, <<"/", "b">>>>))}}

InitRun ==
    /\ config \in RunConfigs
    /\ pc = "validate"
    /\ err = "none"
    /\ paths = <<>>
    /\ UaIdle
    /\ NoScan

NextRun ==
    \/ Validate
    \/ \E builds \in BOOLEAN : BuildClient(builds)
    \/ LoadPaths
    \/ NextUA
    \/ Next

SpecRun == InitRun /\ [][NextRun]_vars

\* ================================================================ claims
\* Helpers of the formulas: what the report holds, what the responses were.
Is5xx(code) == code >= 500 /\ code <= 599

Responded(i) == status_code[i] # NoStatus

TransportFailed(i) == tstate[i] = "done" /\ ~Responded(i)

Returned == pc = "done" /\ IsSome(report)

Rep == report[1]

\* Entries of basic_results for path p with status c.
EntriesFor(p, c) ==
    {k \in 1..Len(Rep.basic_results) :
        Rep.basic_results[k].path = p /\ Rep.basic_results[k].status_code = c}

\* Paths equal to p whose response had status c and satisfy keep.
TasksFor(p, c, keep(_)) ==
    {i \in Tasks : paths[i] = p /\ status_code[i] = c /\ keep(i)}

FoundSomething(i) == IsSome(detected[i]) /\ detected[i][1] # <<>>

AnyTask(i) == TRUE

PathSet == {paths[i] : i \in Tasks}

\* Number of findings the futures of the paths in S returned.
RECURSIVE FindingsReturned(_)
FindingsReturned(S) ==
    IF S = {} THEN 0
    ELSE LET i == CHOOSE x \in S : TRUE IN
         (IF IsSome(ret[i]) THEN Len(ret[i][1].findings) ELSE 0)
           + FindingsReturned(S \ {i})

\* C1: at every moment of the scan the number of requests started and not yet
\* completed (waiting for the response or reading its body) is at most the
\* configured concurrency, which is between 1 and 100.
C1_InFlightAtMostConcurrency ==
    /\ config.concurrency >= 1
    /\ config.concurrency <= 100
    /\ Cardinality(InFlight) <= config.concurrency

\* C1 witness: the queue is full, one request is reading its body, and a
\* path is still waiting to be dispatched.
C1_Witness ==
    /\ Cardinality(InFlight) = config.concurrency
    /\ started < Len(paths)
    /\ \E i \in Tasks : tstate[i] = "body"

\* C2: for a response with status 200 the future returns a result exactly
\* when the detector found something, that result has found = TRUE, and the
\* report holds as many status-200 entries for a path as there were such
\* responses with findings.
C2_Status200KeptIffFindings ==
    /\ \A i \in Tasks :
         (tstate[i] = "done" /\ status_code[i] = 200) =>
           /\ IsSome(ret[i]) <=> FoundSomething(i)
           /\ IsSome(ret[i]) =>
                /\ ret[i][1].result.found = TRUE
                /\ ret[i][1].result.path = paths[i]
                /\ ret[i][1].result.status_code = 200
    /\ Returned =>
         \A p \in PathSet :
           /\ Cardinality(EntriesFor(p, 200))
                = Cardinality(TasksFor(p, 200, FoundSomething))
           /\ \A k \in EntriesFor(p, 200) : Rep.basic_results[k].found = TRUE

\* C2 witness: the scan returned after one status-200 response with findings
\* and one without.
C2_Witness ==
    /\ Returned
    /\ \E i, j \in Tasks :
         /\ status_code[i] = 200 /\ FoundSomething(i)
         /\ status_code[j] = 200 /\ detected[j] = Opt(<<>>)

\* C3: every response with a status in 500..599 adds exactly one to the 5xx
\* counter (so the counter equals the number of such responses), the future
\* returns no result, the detector is not run, and the report has no entry
\* and no finding for it.
C3_ServerErrorCountedNotKept ==
    /\ error_count = Cardinality({i \in Tasks : Is5xx(status_code[i])})
    /\ \A i \in Tasks :
         Is5xx(status_code[i]) =>
           tstate[i] = "done" /\ ret[i] = None /\ detected[i] = NotRun
    /\ Returned =>
         /\ \A k \in 1..Len(Rep.basic_results) :
              ~Is5xx(Rep.basic_results[k].status_code)
         /\ Len(Rep.sensitive_findings)
              = FindingsReturned({i \in Tasks : ~Is5xx(status_code[i])})

\* C3 witness: the scan returned after responses 500 and 599.
C3_Witness ==
    /\ Returned
    /\ \E i, j \in Tasks : status_code[i] = 500 /\ status_code[j] = 599
    /\ Rep.error_count = 2

\* C4: a step that receives a 404 response changes nothing but the progress:
\* the future returns no result, the counter, the forbidden URLs and the
\* detector's record are as before; the report has no entry with status 404.
C4_NotFoundStep(i) ==
    (tstate[i] = "sent" /\ status_code'[i] = 404) =>
       /\ error_count' = error_count
       /\ forbidden_urls' = forbidden_urls
       /\ detected' = detected
       /\ tstate'[i] = "done"
       /\ ret'[i] = None
       /\ results' = Append(results, None)
       /\ progress' = progress + 1
       /\ pc' = pc /\ report' = report

C4_NotFoundLeavesNoTrace ==
    /\ [][\A i \in Tasks : C4_NotFoundStep(i)]_vars
    /\ [](Returned =>
            \A k \in 1..Len(Rep.basic_results) :
               Rep.basic_results[k].status_code # 404)

\* C4 witness: the scan returned after a 404 response that followed a counted
\* 5xx response.
C4_Witness ==
    /\ Returned
    /\ \E i \in Tasks : status_code[i] = 404
    /\ Rep.error_count = 1

\* C6: the URL of every 403 response is in forbidden_urls of the report, and
\* no entry with status 403 is in basic_results.
C6_ForbiddenUrlsRecorded ==
    Returned =>
      /\ \A i \in Tasks :
           status_code[i] = 403 =>
             Contains(Rep.forbidden_urls, Url(config.target, paths[i]))
      /\ \A k \in 1..Len(Rep.basic_results) :
           Rep.basic_results[k].status_code # 403

\* C7: a response whose status is none of 404, 403, 500..599, 200 always
\* yields a result; its found flag is TRUE exactly for a status in 200..299;
\* the findings of the detector go with it into the report.
OtherStatus(i) ==
    /\ Responded(i)
    /\ status_code[i] \notin {404, 403, 200}
    /\ ~Is5xx(status_code[i])

C7_OtherStatusAlwaysKept ==
    /\ \A i \in Tasks :
         (tstate[i] = "done" /\ OtherStatus(i)) =>
           /\ IsSome(ret[i]) /\ IsSome(detected[i])
           /\ ret[i][1].result.path = paths[i]
           /\ ret[i][1].result.status_code = status_code[i]
           /\ ret[i][1].result.found
                <=> (status_code[i] >= 200 /\ status_code[i] <= 299)
           /\ ret[i][1].findings = detected[i][1]
    /\ Returned =>
         \A i \in Tasks :
           OtherStatus(i) =>
             /\ Cardinality(EntriesFor(paths[i], status_code[i]))
                  = Cardinality(TasksFor(paths[i], status_code[i], AnyTask))
             /\ \A k \in EntriesFor(paths[i], status_code[i]) :
                  Rep.basic_results[k].found
                    <=> (status_code[i] >= 200 /\ status_code[i] <= 299)
             /\ \A n \in 1..Len(detected[i][1]) :
                  Contains(Rep.sensitive_findings, detected[i][1][n])

\* C7 witness: the scan returned after a 204 with two findings and a 302
\* without any.
C7_Witness ==
    /\ Returned
    /\ \E i, j \in Tasks :
         /\ status_code[i] = 204 /\ Len(detected[i][1]) = 2
         /\ status_code[j] = 302 /\ detected[j] = Opt(<<>>)

\* C8: a transport failure of one request gives no result for its path,
\* leaves the counter and the forbidden URLs alone and does not end the scan:
\* the scan goes on, can always take a step until it returns, and returns a
\* report once every path has been requested.
C8_FailureStep(i) ==
    (tstate[i] = "sent" /\ tstate'[i] = "done" /\ status_code'[i] = NoStatus) =>
       /\ ret'[i] = None
       /\ error_count' = error_count
       /\ forbidden_urls' = forbidden_urls
       /\ pc' = "scan" /\ err' = "none"
       /\ started' = started
       /\ \A j \in Tasks : j # i => tstate'[j] = tstate[j]

C8_TransportFailureContained ==
    /\ [][\A i \in Tasks : C8_FailureStep(i)]_vars
    /\ []((pc = "scan" /\ \E i \in Tasks : TransportFailed(i)) => ENABLED Next)
    /\ []((\E i \in Tasks : TransportFailed(i)) =>
            /\ pc \in {"scan", "done"} /\ err = "none"
            /\ pc = "done" =>
                 /\ IsSome(report)
                 /\ started = Len(paths)
                 /\ \A j \in Tasks : tstate[j] = "done"
                 /\ \A j \in Tasks : TransportFailed(j) => ret[j] = None
                 /\ Rep.scan_config.paths_scanned = Len(paths))

\* C8 witness: the first request failed, a later one was answered and kept,
\* and the scan returned its report.
C8_Witness ==
    /\ Returned
    /\ Len(paths) >= 2
    /\ TransportFailed(1)
    /\ \E j \in Tasks : j > 1 /\ IsSome(ret[j])
    /\ Rep.error_count = 0

\* C10: when the scan returns, every path gave exactly one value, a result or
\* nothing; the results are exactly the entries of basic_results, so the
\* entries and the discarded paths add up to paths_scanned; error_count is the
\* number of paths discarded for a 5xx status; no entry has status 404, 403
\* or 5xx.
Kept == {i \in Tasks : IsSome(ret[i])}

Discarded == {i \in Tasks : ret[i] = None}

C10_EveryPathAccountedOnce ==
    Returned =>
      /\ Len(results) = Len(paths)
      /\ Len(Rep.basic_results) = Cardinality(Kept)
      /\ Len(Rep.basic_results) + Cardinality(Discarded)
           = Rep.scan_config.paths_scanned
      /\ Rep.scan_config.paths_scanned = Len(paths)
      /\ \A i \in Tasks :
           Cardinality(EntriesFor(paths[i], status_code[i]))
             = Cardinality({j \in Kept : paths[j] = paths[i]
                                         /\ status_code[j] = status_code[i]})
      /\ Rep.error_count
           = Cardinality({i \in Discarded : Is5xx(status_code[i])})
      /\ \A k \in 1..Len(Rep.basic_results) :
           /\ Rep.basic_results[k].status_code \notin {404, 403}
           /\ ~Is5xx(Rep.basic_results[k].status_code)

\* C10 witness: the scan returned with one path kept and one discarded for a
\* 5xx status.
C10_Witness ==
    /\ Returned
    /\ Cardinality(Kept) = 1
    /\ \E i \in Discarded : Is5xx(status_code[i])
    /\ Rep.error_count = 1

\* C5: valid_ua over a pool of K UAs probes the pool positions in order, one
\* probe each: while it runs, no earlier probe was a 2xx; when it returns a UA
\* the last probe, at position k, is the only 2xx and k+1 probes were sent;
\* when it fails after the loop, exactly K probes were sent, none a 2xx
\* (a non-2xx response and a transport error both count as a failure).
Pool == Entries(config.user_agent_file.lines)

Is2xx(resp) == IsSome(resp) /\ resp[1] >= 200 /\ resp[1] <= 299

InOrder ==
    /\ Len(probe_log) <= Len(Pool)
    /\ \A j \in 1..Len(probe_log) : probe_log[j].ua = Pool[j]

C5_ProbeCount ==
    /\ pc = "ua_loop" =>
         /\ InOrder
         /\ \A j \in 1..(Len(probe_log) - 1) : ~Is2xx(probe_log[j].resp)
         /\ retry_count
              = Cardinality({j \in 1..Len(probe_log) : ~Is2xx(probe_log[j].resp)})
    /\ pc = "scan" =>
         /\ InOrder
         /\ Len(probe_log) >= 1
         /\ Is2xx(probe_log[Len(probe_log)].resp)
         /\ \A j \in 1..(Len(probe_log) - 1) : ~Is2xx(probe_log[j].resp)
         /\ user_agent = Pool[Len(probe_log)]
    /\ (pc = "failed" /\ err = "RequestFailed") =>
         /\ InOrder
         /\ Len(probe_log) = Len(Pool)
         /\ \A j \in 1..Len(probe_log) : ~Is2xx(probe_log[j].resp)

\* C5 witness: a pool of three UAs, the first two probes failed
\* (a non-2xx status and a transport error), the third returned 299.
C5_Witness ==
    /\ pc = "scan"
    /\ Len(Pool) = 3
    /\ Len(probe_log) = 3
    /\ probe_log[1].resp = Opt(300)
    /\ probe_log[2].resp = None
    /\ probe_log[3].resp = Opt(299)
    /\ Pool[1] # Pool[2]

\* C9: load_paths returns the dictionary entries followed by the include
\* entries, without the entries that are in the exclude list and with all the
\* others, in the same order and as often as they occur.
AllEntries ==
    Entries(config.dictionary.lines)
      \o (IF IsSome(config.include_paths) /\ config.include_paths[1].exists
          THEN Entries(config.include_paths[1].lines) ELSE <<>>)

Excluded ==
    IF IsSome(config.exclude_paths) /\ config.exclude_paths[1].exists
    THEN {Trim(l) : l \in {config.exclude_paths[1].lines[k] :
                             k \in 1..Len(config.exclude_paths[1].lines)}}
    ELSE {}

KeptPositions == {k \in 1..Len(AllEntries) : AllEntries[k] \notin Excluded}

\* The n-th smallest kept position.
NthKept(n) ==
    CHOOSE k \in KeptPositions :
      Cardinality({j \in KeptPositions : j <= k}) = n

C9_LoadPathsResult ==
    (pc = "ua_validate" /\ err = "none") =>
      /\ Len(paths) = Cardinality(KeptPositions)
      /\ \A n \in 1..Len(paths) : paths[n] = AllEntries[NthKept(n)]

\* C9 witness: an entry occurs twice and is kept twice, another entry is
\* excluded by an exclude line that needed trimming, and an include entry
\* follows the dictionary entries.
C9_Witness ==
    /\ pc = "ua_validate"
    /\ Len(paths) < Len(AllEntries)
    /\ \E m, n \in 1..Len(paths) : m < n /\ paths[m] = paths[n]
    /\ IsSome(config.include_paths)
    /\ config.include_paths[1].lines # <<>>
    /\ paths[Len(paths)] = Trim(config.include_paths[1].lines[1])
    /\ Trim(config.exclude_paths[1].lines[1]) # config.exclude_paths[1].lines[1]

\* C11: when the UA pool is empty (the UA file has no non-empty line after
\* trimming), valid_ua fails with InvalidConfig and has sent no probe.
C11_EmptyPoolIsConfigError ==
    (pc = "failed" /\ Pool = <<>>) =>
      /\ err = "InvalidConfig"
      /\ probe_log = <<>>

\* C12: a run that failed has dispatched no per-path request; if it failed for
\* anything but UA exhaustion (configuration, path list, client) it has sent
\* no probe either.  Probes are only sent for a valid configuration with a
\* non-empty path list, per-path requests only after a probe succeeded.
C12_SetupFailsBeforeRequests ==
    /\ pc = "failed" =>
         /\ request_log = <<>>
         /\ started = 0
         /\ err # "none"
         /\ err # "RequestFailed" => probe_log = <<>>
    /\ probe_log # <<>> =>
         /\ paths # <<>>
         /\ config.concurrency >= 1 /\ config.concurrency <= 100
         /\ config.dictionary.exists /\ config.user_agent_file.exists
    /\ request_log # <<>> =>
         /\ pc \in {"scan", "done"}
         /\ success
         /\ paths # <<>>

\* C12 witness: the run failed by UA exhaustion after two probes.
C12_Witness ==
    /\ pc = "failed"
    /\ err = "RequestFailed"
    /\ Len(probe_log) = 2

\* Once the scan runs, a step sends no probe, keeps the UA and keeps the
\* requests already sent.
C15_ScanStep ==
    pc \in {"scan", "done"} =>
      /\ user_agent' = user_agent
      /\ probe_log' = probe_log
      /\ \A k \in 1..Len(request_log) : request_log'[k] = request_log[k]

\* C15: when a per-path request is sent, valid_ua has returned the UA of its
\* last probe, which was a 2xx; every per-path request carries that UA; once
\* the scan runs, no probe is sent and the UA does not change.
C15_RequestsCarryValidatedUa ==
    /\ [](request_log # <<>> =>
            /\ pc \in {"scan", "done"}
            /\ success
            /\ probe_log # <<>>
            /\ Is2xx(probe_log[Len(probe_log)].resp)
            /\ user_agent = probe_log[Len(probe_log)].ua
            /\ \A k \in 1..Len(request_log) :
                 request_log[k].headers["User-Agent"] = user_agent)
    /\ [][C15_ScanStep]_vars

\* C15 witness: the second UA of the pool was validated after the first
\* failed, and both paths were requested with it.
C15_Witness ==
    /\ pc = "done"
    /\ Len(probe_log) = 2
    /\ user_agent = <<"v">>
    /\ Len(request_log) = 2

\* The headers a claim requires on every request.
BaselineHeaders ==
    {"User-Agent", "Accept", "Accept-Language", "Accept-Encoding",
     "Connection"}

\* C13: every per-path GET carries User-Agent (the validated UA), Accept,
\* Accept-Language, Accept-Encoding and Connection: keep-alive.
C13_ScanRequestHeaders ==
    \A k \in 1..Len(request_log) :
      /\ BaselineHeaders \subseteq DOMAIN request_log[k].headers
      /\ request_log[k].headers["User-Agent"] = user_agent
      /\ request_log[k].headers["Connection"] = KeepAlive

\* Positions of `results` that hold a retained result.
RetainedCompletions == {k \in 1..Len(results) : IsSome(results[k])}

\* The position in `results` of the n-th retained result.
NthRetained(n) ==
    CHOOSE k \in RetainedCompletions :
      Cardinality({j \in RetainedCompletions : j < k}) = n - 1

\* A step in which a future completes appends that future's value to the
\* collected values; any other step leaves them alone.
C19_CompletionStep ==
    LET finishing == {i \in Tasks : tstate[i] # "done" /\ tstate'[i] = "done"}
    IN IF pc = "scan" /\ finishing # {}
       THEN \E i \in finishing :
              /\ finishing = {i}
              /\ results' = Append(results, ret'[i])
       ELSE results' = results

\* C19: the collected values are in completion order, and basic_results of the
\* report lists the retained ones in that same order.
C19_ResultsInCompletionOrder ==
    /\ [][C19_CompletionStep]_vars
    /\ [](Returned =>
            /\ Len(Rep.basic_results) = Cardinality(RetainedCompletions)
            /\ \A n \in 1..Len(Rep.basic_results) :
                 Rep.basic_results[n] = results[NthRetained(n)][1].result)

\* C19 witness: with a limit of at least 2, the two retained results are in
\* the report in the opposite order to their paths in the list.
C19_Witness ==
    /\ Returned
    /\ config.concurrency >= 2
    /\ Len(paths) = 2
    /\ paths[1] # paths[2]
    /\ Len(Rep.basic_results) = 2
    /\ Rep.basic_results[1].path = paths[2]
    /\ Rep.basic_results[2].path = paths[1]

\* C20: in a returned report every entry of basic_results has found = TRUE
\* exactly when its status_code is in 200..299.
C20_FoundIffSuccessStatus ==
    Returned =>
      \A n \in 1..Len(Rep.basic_results) :
        Rep.basic_results[n].found
          <=> Rep.basic_results[n].status_code \in 200..299

\* C20 witness: the report holds a 204 entry that is found and a 302 entry
\* that is not.
C20_Witness ==
    /\ Returned
    /\ \E n \in 1..Len(Rep.basic_results) :
         /\ Rep.basic_results[n].status_code = 204
         /\ Rep.basic_results[n].found
    /\ \E n \in 1..Len(Rep.basic_results) :
         /\ Rep.basic_results[n].status_code = 302
         /\ ~Rep.basic_results[n].found

\* The sequence s rotated left by m positions.
Rotate(s, m) == [k \in 1..Len(s) |-> s[((k - 1 + m) % Len(s)) + 1]]

\* valid_ua has built its queue (the loop runs or has been left).
QueueBuilt ==
    \/ pc \in {"ua_loop", "scan"}
    \/ pc = "failed" /\ err = "RequestFailed"

\* C17: after m probes the queue is the pool rotated left by m, with the same
\* UAs in the same multiplicities; the UA returned on success is the one at
\* the first pool position whose probe was a 2xx, the one sent in that probe.
C17_FirstSuccessAndRotation ==
    /\ QueueBuilt =>
         /\ ua_queue = Rotate(Pool, Len(probe_log))
         /\ \A j \in 1..Len(Pool) :
              Count(ua_queue, Pool[j]) = Count(Pool, Pool[j])
    /\ pc = "scan" =>
         LET m == Len(probe_log) IN
           /\ m >= 1 /\ m <= Len(Pool)
           /\ Is2xx(probe_log[m].resp)
           /\ \A j \in 1..(m - 1) : ~Is2xx(probe_log[j].resp)
           /\ \A j \in 1..m : probe_log[j].ua = Pool[j]
           /\ user_agent = Pool[m]
           /\ user_agent = probe_log[m].headers["User-Agent"]

\* C17 witness: a pool of three UAs, the second probe succeeded, the queue
\* now starts with the third UA and differs from the pool.
C17_Witness ==
    /\ pc = "scan"
    /\ Len(Pool) = 3
    /\ Len(probe_log) = 2
    /\ Pool[1] # Pool[2]
    /\ ua_queue = <<Pool[3], Pool[1], Pool[2]>>
    /\ ua_queue # Pool

\* C18: the URL of every request is the target without its trailing slashes,
\* one "/", and the path without its leading "/"; there is one slash, not
\* two, where the target ends and the path begins.
C18_NoDoubleSlashAtSeam ==
    \A k \in 1..Len(request_log) :
      LET base == TrimEndMatches(config.target, "/")
          p == paths[request_log[k].idx]
          rest == IF StartsWith(p, <<"/">>) THEN Tail(p) ELSE p
          url == request_log[k].url
      IN /\ url = base \o <<"/">> \o rest
         /\ base # <<>> => base[Len(base)] # "/"
         /\ Len(rest) >= 1 => rest[1] # "/"

\* Futures whose increment of the counter is complete.
Incremented ==
    {i \in Tasks : Is5xx(status_code[i]) /\ tstate[i] \in {"stored", "done"}}

\* C14: at most one future at a time is between locking the 5xx counter and
\* releasing it, no increment is lost while the scan runs, and the
\* error_count of the report is the number of responses with a 5xx status.
C14_CounterIncrementsExclusive ==
    /\ Cardinality(Holders) <= 1
    /\ pc \in {"scan", "done"} => error_count = Cardinality(Incremented)
    /\ Returned =>
         Rep.error_count
           = Cardinality({i \in Tasks : status_code[i] \in 500..599})

\* C14 witness: with a limit of at least 2, two requests in flight together
\* both got a 5xx and the report counts 2.
C14_Witness ==
    /\ Returned
    /\ config.concurrency >= 2
    /\ Cardinality({i \in Tasks : status_code[i] \in 500..599}) = 2
    /\ Rep.error_count = 2

\* Number of requests sent for the path of index i.
TimesRequested(i) ==
    Cardinality({k \in 1..Len(request_log) : request_log[k].idx = i})

\* C16: the paths are requested in list order, each entry of the list once
\* (a path is never requested again, whatever the outcome of its request);
\* the scan eventually returns its report, and then every entry has been
\* requested exactly once and every unit is finished.
C16_EachPathOnceAndScanCompletes ==
    /\ [](/\ Len(request_log) = started
          /\ \A i \in Tasks :
               /\ TimesRequested(i) = (IF i <= started THEN 1 ELSE 0)
               /\ tstate[i] = "queued" <=> i > started
          /\ \A k \in 1..Len(request_log) :
               request_log[k].url = Url(config.target, paths[request_log[k].idx]))
    /\ [](Returned =>
            /\ \A i \in Tasks : TimesRequested(i) = 1 /\ tstate[i] = "done"
            /\ Len(results) = Len(paths)
            /\ progress = Len(paths)
            /\ Rep.scan_config.paths_scanned = Len(paths))
    /\ <>Returned

\* C16 witness: a list that holds the same path twice has been scanned, one
\* of the two requests failed in transport, and the report is returned.
C16_Witness ==
    /\ Returned
    /\ Len(paths) = 2
    /\ paths[1] = paths[2]
    /\ Len(request_log) = 2
    /\ TransportFailed(1)
    /\ Responded(2)

\* The findings of the first n retained results, in basic_results order.
RECURSIVE FindingsOfFirst(_)
FindingsOfFirst(n) ==
    IF n = 0 THEN <<>>
    ELSE FindingsOfFirst(n - 1) \o results[NthRetained(n)][1].findings

\* Number of findings the detector returned on the bodies of the paths in S.
RECURSIVE FindingsDetected(_)
FindingsDetected(S) ==
    IF S = {} THEN 0
    ELSE LET i == CHOOSE x \in S : TRUE IN
         (IF IsSome(detected[i]) THEN Len(detected[i][1]) ELSE 0)
           + FindingsDetected(S \ {i})

\* C21: a future that ran the detector returns exactly the findings the
\* detector returned (a status-200 future with no finding returns nothing);
\* in a returned report sensitive_findings is the concatenation of the
\* findings of the retained results in basic_results order, holds every
\* finding detected on any body, none for a URL without an entry in
\* basic_results, and every status-200 entry comes with a finding.
C21_FindingsMatchRetainedResults ==
    /\ \A i \in Tasks :
         tstate[i] = "done" =>
           /\ IsSome(ret[i]) =>
                /\ IsSome(detected[i])
                /\ ret[i][1].findings = detected[i][1]
           /\ ret[i] = None => ~FoundSomething(i)
    /\ Returned =>
         /\ Rep.sensitive_findings = FindingsOfFirst(Len(Rep.basic_results))
         /\ Len(Rep.sensitive_findings) = FindingsDetected(Tasks)
         /\ \A k \in 1..Len(Rep.sensitive_findings) :
              \E n \in 1..Len(Rep.basic_results) :
                Rep.basic_results[n].url = Rep.sensitive_findings[k].url
         /\ \A n \in 1..Len(Rep.basic_results) :
              Rep.basic_results[n].status_code = 200 =>
                results[NthRetained(n)][1].findings # <<>>

\* C21 witness: the report holds a status-200 entry followed by a 302 entry,
\* both with findings, three findings in all.
C21_Witness ==
    /\ Returned
    /\ Len(Rep.basic_results) = 2
    /\ Rep.basic_results[1].status_code = 200
    /\ Rep.basic_results[2].status_code = 302
    /\ results[NthRetained(2)][1].findings # <<>>
    /\ Len(Rep.sensitive_findings) = 3

\* A step in which the read of a body fails changes no counter, keeps the
\* scan running and completes the future.
C22_BodyFailureStep ==
    \A i \in Tasks :
      (body_read[i] = "unread" /\ body_read'[i] = "failed") =>
        /\ error_count' = error_count
        /\ forbidden_urls' = forbidden_urls
        /\ pc' = "scan" /\ err' = "none"
        /\ status_code' = status_code
        /\ tstate'[i] = "done"
        /\ progress' = progress + 1

\* C22: a response whose body could not be read keeps its status (it is not
\* a transport failure), the detector is run on the empty body; with status
\* 200 the future returns a result only if the detector found something,
\* with any other retained status it returns a result; a result returned has
\* content_length = 0; no counter changes and the scan is not aborted.
C22_BodyFailureIsEmptyBody ==
    /\ [][C22_BodyFailureStep]_vars
    /\ [](\A i \in Tasks :
            body_read[i] = "failed" =>
              /\ Responded(i) /\ ~TransportFailed(i)
              /\ Classify(status_code[i]) \in {"ok", "other"}
              /\ IsSome(detected[i])
              /\ pc \in {"scan", "done"} /\ err = "none"
              /\ status_code[i] = 200 =>
                   (IsSome(ret[i]) <=> detected[i][1] # <<>>)
              /\ status_code[i] # 200 => IsSome(ret[i])
              /\ IsSome(ret[i]) =>
                   /\ ret[i][1].result.content_length = 0
                   /\ ret[i][1].result.status_code = status_code[i]
                   /\ ret[i][1].findings = detected[i][1])

\* C22 witness: the scan returned after two failed body reads, one of a
\* status-200 response, which left no result, and one of a 302 response,
\* whose result with content_length 0 is in the report.
C22_Witness ==
    /\ Returned
    /\ \E i, j \in Tasks :
         /\ body_read[i] = "failed" /\ status_code[i] = 200 /\ ret[i] = None
         /\ body_read[j] = "failed" /\ status_code[j] = 302
    /\ Len(Rep.basic_results) = 1
    /\ Rep.basic_results[1].content_length = 0
    /\ Rep.error_count = 0

====
